---- MODULE Spec2Model ----
(***************************************************************************)
(* Model of the PDF-to-JPEG service (app/main.py): the POST /convert       *)
(* request (classification of the upload, converter dispatch, response     *)
(* negotiation, the three encoders and the temporary-resource cleanup)     *)
(* and the POST /screenshot request (URL validation before rendering).     *)
(*                                                                         *)
(* A Python str is a sequence of one-character strings; None is the        *)
(* one-element sequence <<"None">>, which no str equals.  A byte is an     *)
(* integer in 0..255 and a file's content is a sequence of bytes.          *)
(***************************************************************************)
EXTENDS Integers, Sequences, FiniteSets, TLC

\* ------------------------------------------------------------------------
\* Bounds of the model
\* ------------------------------------------------------------------------
MaxPages == 2

MaxImgLen == 3

\* ------------------------------------------------------------------------
\* Python str helpers
\* ------------------------------------------------------------------------
None == <<"None">>

Truthy(s) == s # None /\ s # <<>>

UpperLetters == <<"A", "B", "C", "D", "E", "F", "G", "H", "I", "J", "K", "L", "M", "N", "O", "P", "Q", "R", "S", "T", "U", "V", "W", "X", "Y", "Z">>

LowerLetters == <<"a", "b", "c", "d", "e", "f", "g", "h", "i", "j", "k", "l", "m", "n", "o", "p", "q", "r", "s", "t", "u", "v", "w", "x", "y", "z">>

\* str.lower() on one character
LowerChar(c) ==
    IF \E i \in 1..26 : UpperLetters[i] = c
    THEN LowerLetters[CHOOSE i \in 1..26 : UpperLetters[i] = c]
    ELSE c

\* str.lower()
Lower(s) == [i \in 1..Len(s) |-> LowerChar(s[i])]

Whitespace == {" ", "\t"}

RECURSIVE LStrip(_)
LStrip(s) == IF s # <<>> /\ Head(s) \in Whitespace THEN LStrip(Tail(s)) ELSE s

RECURSIVE RStrip(_)
RStrip(s) ==
    IF s # <<>> /\ s[Len(s)] \in Whitespace THEN RStrip(SubSeq(s, 1, Len(s) - 1)) ELSE s

\* str.strip()
Strip(s) == RStrip(LStrip(s))

\* str.find(sep) for a one-character sep: first index (1-based), 0 if absent
Find(s, sep) ==
    IF \E i \in 1..Len(s) : s[i] = sep
    THEN CHOOSE i \in 1..Len(s) : s[i] = sep /\ \A j \in 1..(i - 1) : s[j] # sep
    ELSE 0

\* str.rfind(sep): last index (1-based), 0 if absent
RFind(s, sep) ==
    IF \E i \in 1..Len(s) : s[i] = sep
    THEN CHOOSE i \in 1..Len(s) : s[i] = sep /\ \A j \in (i + 1)..Len(s) : s[j] # sep
    ELSE 0

\* str.split(sep) for a one-character sep: always at least one item
RECURSIVE Split(_, _)
Split(s, sep) ==
    LET k == Find(s, sep)
    IN  IF k = 0 THEN <<s>>
        ELSE <<SubSeq(s, 1, k - 1)>> \o Split(SubSeq(s, k + 1, Len(s)), sep)

\* str.startswith(prefix)
StartsWith(s, prefix) ==
    Len(s) >= Len(prefix) /\ SubSeq(s, 1, Len(prefix)) = prefix

\* dict.get(key, default) on a sequence of <<key, value>> pairs
DictGet(table, key, default) ==
    IF \E i \in 1..Len(table) : table[i][1] = key
    THEN table[CHOOSE i \in 1..Len(table) : table[i][1] = key][2]
    ELSE default

\* os.path.splitext (posixpath -> genericpath._splitext, sep "/", extsep "."):
\* the extension starts at the last dot of the last path component, unless
\* that component has only dots before it.
RECURSIVE SplitextScan(_, _, _)
SplitextScan(p, filenameIndex, dotIndex) ==
    IF filenameIndex < dotIndex
    THEN IF p[filenameIndex] # "."
         THEN <<SubSeq(p, 1, dotIndex - 1), SubSeq(p, dotIndex, Len(p))>>
         ELSE SplitextScan(p, filenameIndex + 1, dotIndex)
    ELSE <<p, <<>>>>

splitext(p) ==
    LET sepIndex == RFind(p, "/")
        dotIndex == RFind(p, ".")
    IN  IF dotIndex > sepIndex
        THEN SplitextScan(p, sepIndex + 1, dotIndex)
        ELSE <<p, <<>>>>

\* ------------------------------------------------------------------------
\* Format classifier
\* ------------------------------------------------------------------------
PDF_EXTENSIONS == {<<".", "p", "d", "f">>}

DOCUMENT_EXTENSIONS == {<<".", "d", "o", "c">>, <<".", "d", "o", "c", "x">>}

SPREADSHEET_EXTENSIONS == {<<".", "x", "l", "s">>, <<".", "x", "l", "s", "x">>}

PRESENTATION_EXTENSIONS == {<<".", "p", "p", "t">>, <<".", "p", "p", "t", "x">>}

VIDEO_EXTENSIONS == {<<".", "m", "p", "4">>, <<".", "m", "o", "v">>, <<".", "a", "v", "i">>}

SUPPORTED_EXTENSIONS ==
    PDF_EXTENSIONS \cup DOCUMENT_EXTENSIONS \cup SPREADSHEET_EXTENSIONS
        \cup PRESENTATION_EXTENSIONS \cup VIDEO_EXTENSIONS

content_type_mapping ==
    << <<<<"a", "p", "p", "l", "i", "c", "a", "t", "i", "o", "n", "/", "p", "d", "f">>, <<".", "p", "d", "f">>>>,
       <<<<"a", "p", "p", "l", "i", "c", "a", "t", "i", "o", "n", "/", "m", "s", "w", "o", "r", "d">>, <<".", "d", "o", "c">>>>,
       <<<<"a", "p", "p", "l", "i", "c", "a", "t", "i", "o", "n", "/", "v", "n", "d", ".", "o", "p", "e", "n", "x", "m", "l", "f", "o", "r", "m", "a", "t", "s", "-", "o", "f", "f", "i", "c", "e", "d", "o", "c", "u", "m", "e", "n", "t", ".", "w", "o", "r", "d", "p", "r", "o", "c", "e", "s", "s", "i", "n", "g", "m", "l", ".", "d", "o", "c", "u", "m", "e", "n", "t">>,
         <<".", "d", "o", "c", "x">>>>,
       <<<<"a", "p", "p", "l", "i", "c", "a", "t", "i", "o", "n", "/", "v", "n", "d", ".", "m", "s", "-", "e", "x", "c", "e", "l">>, <<".", "x", "l", "s">>>>,
       <<<<"a", "p", "p", "l", "i", "c", "a", "t", "i", "o", "n", "/", "v", "n", "d", ".", "o", "p", "e", "n", "x", "m", "l", "f", "o", "r", "m", "a", "t", "s", "-", "o", "f", "f", "i", "c", "e", "d", "o", "c", "u", "m", "e", "n", "t", ".", "s", "p", "r", "e", "a", "d", "s", "h", "e", "e", "t", "m", "l", ".", "s", "h", "e", "e", "t">>,
         <<".", "x", "l", "s", "x">>>>,
       <<<<"a", "p", "p", "l", "i", "c", "a", "t", "i", "o", "n", "/", "v", "n", "d", ".", "m", "s", "-", "p", "o", "w", "e", "r", "p", "o", "i", "n", "t">>, <<".", "p", "p", "t">>>>,
       <<<<"a", "p", "p", "l", "i", "c", "a", "t", "i", "o", "n", "/", "v", "n", "d", ".", "o", "p", "e", "n", "x", "m", "l", "f", "o", "r", "m", "a", "t", "s", "-", "o", "f", "f", "i", "c", "e", "d", "o", "c", "u", "m", "e", "n", "t", ".", "p", "r", "e", "s", "e", "n", "t", "a", "t", "i", "o", "n", "m", "l", ".", "p", "r", "e", "s", "e", "n", "t", "a", "t", "i", "o", "n">>,
         <<".", "p", "p", "t", "x">>>>,
       <<<<"v", "i", "d", "e", "o", "/", "m", "p", "4">>, <<".", "m", "p", "4">>>>,
       <<<<"v", "i", "d", "e", "o", "/", "q", "u", "i", "c", "k", "t", "i", "m", "e">>, <<".", "m", "o", "v">>>>,
       <<<<"v", "i", "d", "e", "o", "/", "x", "-", "m", "s", "v", "i", "d", "e", "o">>, <<".", "a", "v", "i">>>> >>

\* mutant: the filename extension is returned without lower()
GetUploadSuffixNoLower(fname, ctype) ==
    LET ext == IF Truthy(fname) THEN splitext(fname)[2] ELSE <<>>
    IN  IF ext # <<>> THEN ext
        ELSE DictGet(content_type_mapping,
                     Lower(IF Truthy(ctype) THEN ctype ELSE <<>>), <<>>)

_get_upload_suffix(fname, ctype) ==
    LET ext == IF Truthy(fname) THEN splitext(fname)[2] ELSE <<>>
    IN  IF ext # <<>> THEN Lower(ext)
        ELSE DictGet(content_type_mapping,
                     Lower(IF Truthy(ctype) THEN ctype ELSE <<>>), <<>>)

_categorize_extension(sfx) ==
    IF sfx \in PDF_EXTENSIONS THEN "pdf"
    ELSE IF sfx \in DOCUMENT_EXTENSIONS \cup SPREADSHEET_EXTENSIONS
                        \cup PRESENTATION_EXTENSIONS THEN "office"
    ELSE IF sfx \in VIDEO_EXTENSIONS THEN "video"
    ELSE "unknown"

\* ------------------------------------------------------------------------
\* Response negotiator
\* ------------------------------------------------------------------------
\* item.split(";")[0].strip().lower()
media_type(item) == Lower(Strip(Split(item, ";")[1]))

ZipMediaTypes == {<<"a", "p", "p", "l", "i", "c", "a", "t", "i", "o", "n", "/", "z", "i", "p">>, <<"a", "p", "p", "l", "i", "c", "a", "t", "i", "o", "n", "/", "x", "-", "z", "i", "p", "-", "c", "o", "m", "p", "r", "e", "s", "s", "e", "d">>}

JsonMediaType == <<"a", "p", "p", "l", "i", "c", "a", "t", "i", "o", "n", "/", "j", "s", "o", "n">>

\* mutant: the override is compared without lower() and a zip Accept item
\* is honoured only when no override is given
WantsZipOverrideFirst(fmt, accept) ==
    IF Truthy(fmt) THEN fmt = <<"z", "i", "p">>
    ELSE IF ~Truthy(accept) THEN FALSE
    ELSE \E i \in 1..Len(Split(accept, ",")) :
            media_type(Split(accept, ",")[i]) \in ZipMediaTypes

_wants_zip(fmt, accept) ==
    IF Truthy(fmt) /\ Lower(fmt) = <<"z", "i", "p">> THEN TRUE
    ELSE IF ~Truthy(accept) THEN FALSE
    ELSE \E i \in 1..Len(Split(accept, ",")) :
            media_type(Split(accept, ",")[i]) \in ZipMediaTypes

_wants_json(fmt, accept) ==
    IF Truthy(fmt) THEN Lower(fmt) = <<"j", "s", "o", "n">>
    ELSE IF ~Truthy(accept) THEN FALSE
    ELSE \E i \in 1..Len(Split(accept, ",")) :
            media_type(Split(accept, ",")[i]) = JsonMediaType

\* ------------------------------------------------------------------------
\* Files, page images and the three wire formats
\* ------------------------------------------------------------------------
\* Scaled: the source reads and forwards 1024 * 1024 bytes per chunk; the
\* model's files are a few bytes long, so a chunk is two bytes.
CHUNK_SIZE == 2

BOUNDARY_PREFIX == "pdf-image-boundary"

\* f"{BOUNDARY_PREFIX}-{uuid.uuid4().hex}": the random suffix is opaque
boundary == <<BOUNDARY_PREFIX, "-", "uuid4">>

\* Two byte patterns per length: the page images of the model
ImgA(n) == [i \in 1..n |-> (i * 85) % 256]

ImgB(n) == [i \in 1..n |-> (i * 199 + 3) % 256]

Images == {ImgA(n) : n \in 0..MaxImgLen} \cup {ImgB(n) : n \in 1..MaxImgLen}

\* The ordered page images a document renders to
Docs == UNION {[1..n -> Images] : n \in 0..MaxPages}

Digits == <<"0", "1", "2", "3", "4", "5", "6", "7", "8", "9">>

\* str(n) for n >= 0
RECURSIVE IntToStr(_)
IntToStr(n) ==
    IF n < 10 THEN <<Digits[n + 1]>> ELSE IntToStr(n \div 10) \o <<Digits[(n % 10) + 1]>>

\* mutant: enumerate(image_paths) without start=1
PageFilenameFromZero(index) == <<"p", "a", "g", "e", "-">> \o IntToStr(index - 1) \o <<".", "j", "p", "g">>

\* f"page-{index}.jpg"
page_filename(index) == <<"p", "a", "g", "e", "-">> \o IntToStr(index) \o <<".", "j", "p", "g">>

B64Alphabet ==
    <<"A", "B", "C", "D", "E", "F", "G", "H", "I", "J", "K", "L", "M", "N", "O", "P", "Q", "R", "S", "T", "U", "V", "W", "X", "Y", "Z", "a", "b", "c", "d", "e", "f", "g", "h", "i", "j", "k", "l", "m", "n", "o", "p", "q", "r", "s", "t", "u", "v", "w", "x", "y", "z", "0", "1", "2", "3", "4", "5", "6", "7", "8", "9", "+", "/">>

\* base64.b64encode(...).decode("ascii")
RECURSIVE b64encode(_)
b64encode(b) ==
    IF Len(b) = 0 THEN <<>>
    ELSE IF Len(b) = 1 THEN
        << B64Alphabet[(b[1] \div 4) + 1],
           B64Alphabet[((b[1] % 4) * 16) + 1], "=", "=" >>
    ELSE IF Len(b) = 2 THEN
        << B64Alphabet[(b[1] \div 4) + 1],
           B64Alphabet[((b[1] % 4) * 16 + (b[2] \div 16)) + 1],
           B64Alphabet[((b[2] % 16) * 4) + 1], "=" >>
    ELSE
        << B64Alphabet[(b[1] \div 4) + 1],
           B64Alphabet[((b[1] % 4) * 16 + (b[2] \div 16)) + 1],
           B64Alphabet[((b[2] % 16) * 4 + (b[3] \div 64)) + 1],
           B64Alphabet[(b[3] % 64) + 1] >> \o b64encode(SubSeq(b, 4, Len(b)))

DataUriPrefix == <<"d", "a", "t", "a", ":", "i", "m", "a", "g", "e", "/", "j", "p", "e", "g", ";", "b", "a", "s", "e", "6", "4", ",">>

\* one element of json_payload
json_entry(index, content) ==
    [page |-> index, filename |-> page_filename(index),
     data |-> DataUriPrefix \o b64encode(content)]

\* The bytes of a file or of a response body are a sequence of units: a
\* unit is one byte (k = "byte"), or one framing element whose own bytes
\* are not spelled out (a multipart header block, a CRLF, a closing
\* delimiter, a ZIP local file header, the ZIP end record).
ByteUnit(v) ==
    [k |-> "byte", v |-> v, name |-> <<>>, size |-> 0, bnd |-> <<>>]

Bytes(content) == [i \in 1..Len(content) |-> ByteUnit(content[i])]

\* mutant: Content-Length counts the trailing CRLF as well
MultipartHeadersPlusCrlf(bnd, fname, content_length) ==
    [k |-> "headers", v |-> 0, name |-> fname, size |-> content_length + 2, bnd |-> bnd]

\* "--{boundary}\r\nContent-Type: image/jpeg\r\nContent-Disposition:
\* attachment; filename=...\r\nContent-Length: ...\r\n\r\n"
multipart_headers(bnd, fname, content_length) ==
    [k |-> "headers", v |-> 0, name |-> fname, size |-> content_length, bnd |-> bnd]

CrlfUnit == [k |-> "crlf", v |-> 0, name |-> <<>>, size |-> 0, bnd |-> <<>>]

\* f"--{boundary}--\r\n"
closing_delimiter(bnd) ==
    [k |-> "close", v |-> 0, name |-> <<>>, size |-> 0, bnd |-> bnd]

\* zipfile.ZipFile.write(image_path, arcname=arcname): a local header
\* naming the entry and its size, then the entry's data
zip_entry(arcname, content) ==
    <<[k |-> "zipentry", v |-> 0, name |-> arcname, size |-> Len(content), bnd |-> <<>>]>>
        \o Bytes(content)

\* ZipFile.close(): the end record counts the entries
zip_end(n) == [k |-> "zipend", v |-> 0, name |-> <<>>, size |-> n, bnd |-> <<>>]

\* _create_zip_archive's loop: the archive holding pages index..Len(contents)
RECURSIVE zip_entries(_, _)
zip_entries(contents, index) ==
    IF index > Len(contents) THEN <<>>
    ELSE zip_entry(page_filename(index), contents[index])
            \o zip_entries(contents, index + 1)

zip_archive(contents) == zip_entries(contents, 1) \o <<zip_end(Len(contents))>>

\* file_obj.read(CHUNK_SIZE) at offset off
read_chunk(content, off) ==
    SubSeq(content, off + 1, IF off + CHUNK_SIZE < Len(content)
                             THEN off + CHUNK_SIZE ELSE Len(content))

\* ------------------------------------------------------------------------
\* State
\* ------------------------------------------------------------------------
VARIABLES
    endpoint,         \* "convert" or "screenshot": the route of the request
    filename,         \* file.filename (None or str)
    content_type,     \* file.content_type (None or str)
    upload_size,      \* number of bytes of the upload
    response_format,  \* the response_format query parameter (None or str)
    accept_header,    \* request.headers.get("accept") (None or str)
    doc,              \* the page images (frames) the uploaded document renders to
    pc,               \* position of the request handler
    suffix,           \* convert_pdf: suffix
    category,         \* convert_pdf: category
    wants_zip,        \* convert_pdf: wants_zip
    wants_json,       \* convert_pdf: wants_json
    tmp_path,         \* convert_pdf: tmp_path (None before the upload is written)
    temp_images,      \* convert_pdf: temp_images.name (None before it is created)
    cleanup_dirs,     \* convert_pdf: cleanup_dirs
    zip_path,         \* convert_pdf: zip_path
    image_paths,      \* convert_pdf: image_paths, as indexes into fs.images
    json_payload,     \* convert_pdf: json_payload
    index,            \* the encoders' enumerate() index
    offset,           \* read position in the file the encoder has open
    gen,              \* state of the content() generator
    exc,              \* the exception that ended the request ("none" if none)
    fs,               \* the temporary files and directories on disk
    status,           \* HTTP status of the response (0: none yet)
    sent,             \* the units of the streamed body forwarded so far
    json_response,    \* the content of the JSONResponse
    complete,         \* the response body was produced to its end
    cleanup_calls,    \* number of times cleanup() ran
    late_read,        \* an encoder read a file after cleanup() ran
    invoked,          \* the converters that were invoked
    url,              \* screenshot: the url query parameter (None or str)
    raw_body,         \* screenshot: the request body
    target_url,       \* screenshot: target_url
    launched          \* screenshot: the URLs the headless browser was given

req_vars == <<endpoint, filename, content_type, upload_size, response_format,
              accept_header, doc, url, raw_body>>

local_vars == <<suffix, category, wants_zip, wants_json, tmp_path, temp_images,
                cleanup_dirs, zip_path, image_paths>>

enc_vars == <<json_payload, index, offset, gen, sent, json_response, complete>>

shot_vars == <<target_url, launched>>

vars == <<req_vars, local_vars, enc_vars, shot_vars, pc, exc, fs, status,
          cleanup_calls, late_read, invoked>>

TmpUploadPath == <<"tmp_upload">>

TempImagesDir == <<"temp_images">>

OfficeOutputDir == <<"office_output_dir">>

TmpZipPath == <<"tmp_zip">>

EmptyFs ==
    [upload |-> FALSE, imgdir |-> FALSE, images |-> <<>>, office |-> FALSE,
     zip |-> FALSE, zipdata |-> <<>>]

\* Python values of the screenshot request: str, None, int
PyStr(s) == [t |-> "str", v |-> s, n |-> 0]

PyNone == [t |-> "none", v |-> <<>>, n |-> 0]

PyInt(n) == [t |-> "int", v |-> <<>>, n |-> n]

PyTruthy(val) ==
    CASE val.t = "str" -> val.v # <<>>
      [] val.t = "int" -> val.n # 0
      [] OTHER -> FALSE

\* ------------------------------------------------------------------------
\* Requests of the model
\* ------------------------------------------------------------------------
Upload(f, c, n) == [filename |-> f, content_type |-> c, size |-> n]

\* one upload per category, an unsupported one and an empty one
BaseUploads ==
    { Upload(<<"a", ".", "p", "d", "f">>, None, 1), Upload(<<"r", ".", "d", "o", "c", "x">>, None, 1),
      Upload(None, <<"v", "i", "d", "e", "o", "/", "m", "p", "4">>, 1), Upload(<<"a", ".", "t", "x", "t">>, None, 1),
      Upload(<<"a", ".", "p", "d", "f">>, None, 0) }

Filenames ==
    { None, <<>>, <<"a", ".", "p", "d", "f">>, <<"a", ".", "P", "D", "F">>, <<".", "p", "d", "f">>, <<"a", ".">>, <<"a", ".", "b", "/", "c">>, <<"x", ".", "D", "o", "c", "x">>,
      <<"s", ".", "x", "l", "s">>, <<"p", ".", "p", "p", "t", "x">>, <<"v", ".", "M", "O", "V">>, <<"v", ".", "a", "v", "i">>, <<"a", ".", "t", "a", "r", ".", "x", "l", "s", "x">>, <<".", ".", "m", "p", "4">>,
      <<"a", ".", "t", "x", "t">>, <<"a", ".", "p", "d", "f", "x">>, <<"p", "d", "f">> }

ContentTypes ==
    { None, <<"a", "p", "p", "l", "i", "c", "a", "t", "i", "o", "n", "/", "p", "d", "f">>, <<"A", "p", "p", "l", "i", "c", "a", "t", "i", "o", "n", "/", "P", "D", "F">>, <<"a", "p", "p", "l", "i", "c", "a", "t", "i", "o", "n", "/", "m", "s", "w", "o", "r", "d">>,
      <<"v", "i", "d", "e", "o", "/", "q", "u", "i", "c", "k", "t", "i", "m", "e">>, <<"t", "e", "x", "t", "/", "p", "l", "a", "i", "n">>,
      <<"a", "p", "p", "l", "i", "c", "a", "t", "i", "o", "n", "/", "v", "n", "d", ".", "o", "p", "e", "n", "x", "m", "l", "f", "o", "r", "m", "a", "t", "s", "-", "o", "f", "f", "i", "c", "e", "d", "o", "c", "u", "m", "e", "n", "t", ".", "p", "r", "e", "s", "e", "n", "t", "a", "t", "i", "o", "n", "m", "l", ".", "p", "r", "e", "s", "e", "n", "t", "a", "t", "i", "o", "n">> }

RichUploads ==
    { Upload(f, c, n) : f \in Filenames, c \in ContentTypes, n \in {0, 1} }

Neg(f, a) == [response_format |-> f, accept_header |-> a]

\* one request per response mode
BaseNegs ==
    { Neg(None, None), Neg(<<"z", "i", "p">>, <<"a", "p", "p", "l", "i", "c", "a", "t", "i", "o", "n", "/", "j", "s", "o", "n">>),
      Neg(None, <<"a", "p", "p", "l", "i", "c", "a", "t", "i", "o", "n", "/", "j", "s", "o", "n">>) }

Formats ==
    { None, <<>>, <<"z", "i", "p">>, <<"Z", "I", "P">>, <<"Z", "i", "p">>, <<"j", "s", "o", "n">>, <<"J", "S", "O", "N">>, <<"x", "m", "l">>, <<"z", "i", "p", "x">> }

Accepts ==
    { None, <<>>, <<"a", "p", "p", "l", "i", "c", "a", "t", "i", "o", "n", "/", "z", "i", "p">>, <<"A", "p", "p", "l", "i", "c", "a", "t", "i", "o", "n", "/", "Z", "I", "P", ";", "q", "=", "0", ".", "8">>,
      <<"t", "e", "x", "t", "/", "h", "t", "m", "l", ",", " ", "a", "p", "p", "l", "i", "c", "a", "t", "i", "o", "n", "/", "x", "-", "z", "i", "p", "-", "c", "o", "m", "p", "r", "e", "s", "s", "e", "d", " ">>, <<"a", "p", "p", "l", "i", "c", "a", "t", "i", "o", "n", "/", "j", "s", "o", "n">>,
      <<"t", "e", "x", "t", "/", "h", "t", "m", "l", ",", " ", "A", "P", "P", "L", "I", "C", "A", "T", "I", "O", "N", "/", "J", "S", "O", "N", ";", "c", "h", "a", "r", "s", "e", "t", "=", "u", "t", "f", "-", "8">>,
      <<"a", "p", "p", "l", "i", "c", "a", "t", "i", "o", "n", "/", "j", "s", "o", "n", ",", "a", "p", "p", "l", "i", "c", "a", "t", "i", "o", "n", "/", "z", "i", "p">>, <<"a", "p", "p", "l", "i", "c", "a", "t", "i", "o", "n", "/", "z", "i", "p", "x">>, <<"*", "/", "*">>,
      <<"t", "e", "x", "t", "/", "h", "t", "m", "l", ";", "a", "p", "p", "l", "i", "c", "a", "t", "i", "o", "n", "/", "z", "i", "p">>, <<"a", "p", "p", "l", "i", "c", "a", "t", "i", "o", "n", "/", "x", "-", "z", "i", "p">>,
      <<"t", "e", "x", "t", "/", "h", "t", "m", "l", ";", "q", "=", "0", ".", "9", ",", " ", "\t", "a", "p", "p", "l", "i", "c", "a", "t", "i", "o", "n", "/", "j", "s", "o", "n", "\t">> }

RichNegs == { Neg(f, a) : f \in Formats, a \in Accepts }

SmallDocs == { <<>>, <<ImgA(1)>>, <<ImgB(1), ImgA(0)>> }

Urls ==
    { None, <<>>, <<"h", "t", "t", "p", ":", "/", "/", "a">>, <<"h", "t", "t", "p", "s", ":", "/", "/", "a">>, <<"H", "T", "T", "P", ":", "/", "/", "a">>, <<"H", "t", "t", "p", "s", ":", "/", "/", "a">>,
      <<"f", "t", "p", ":", "/", "/", "a">>, <<"h", "t", "t", "p", ":", "/", "a">>, <<"f", "i", "l", "e", ":", "/", "/", "/", "e", "t", "c", "/", "p", "a", "s", "s", "w", "d">>, <<" ", "h", "t", "t", "p", ":", "/", "/", "a">> }

Body(k, u) == [k |-> k, url |-> u]

\* the request body: absent, not JSON, a JSON array, or a JSON object whose
\* "url" member is absent (or null), a string or a number
Bodies ==
    { Body("empty", PyNone), Body("invalid", PyNone), Body("array", PyNone),
      Body("object", PyNone), Body("object", PyInt(0)), Body("object", PyInt(7)) }
    \cup { Body("object", PyStr(u)) : u \in Urls \ {None} }

InitWith(Uploads, Negs, DocSet) ==
    /\ \/ /\ endpoint = "convert"
          /\ \E u \in Uploads :
                /\ filename = u.filename
                /\ content_type = u.content_type
                /\ upload_size = u.size
          /\ \E n \in Negs :
                /\ response_format = n.response_format
                /\ accept_header = n.accept_header
          /\ doc \in DocSet
          /\ url = None
          /\ raw_body = Body("empty", PyNone)
       \/ /\ endpoint = "screenshot"
          /\ filename = None
          /\ content_type = None
          /\ upload_size = 0
          /\ response_format = None
          /\ accept_header = None
          /\ doc = <<>>
          /\ url \in Urls
          /\ raw_body \in Bodies
    /\ pc = "start"
    /\ suffix = None
    /\ category = "none"
    /\ wants_zip = FALSE
    /\ wants_json = FALSE
    /\ tmp_path = None
    /\ temp_images = None
    /\ cleanup_dirs = <<>>
    /\ zip_path = None
    /\ image_paths = <<>>
    /\ json_payload = <<>>
    /\ index = 0
    /\ offset = 0
    /\ gen = "none"
    /\ exc = "none"
    /\ fs = EmptyFs
    /\ status = 0
    /\ sent = <<>>
    /\ json_response = <<>>
    /\ complete = FALSE
    /\ cleanup_calls = 0
    /\ late_read = FALSE
    /\ invoked = {}
    /\ target_url = None
    /\ launched = {}

Init == InitWith(BaseUploads, BaseNegs, Docs)

InitUpload == InitWith(RichUploads, BaseNegs, SmallDocs)

InitNegotiate == InitWith(BaseUploads, RichNegs, SmallDocs)

\* ------------------------------------------------------------------------
\* POST /convert
\* ------------------------------------------------------------------------
\* os.unlink(path), FileNotFoundError and IsADirectoryError ignored
unlink(f, path) ==
    IF path = TmpUploadPath THEN [f EXCEPT !.upload = FALSE]
    ELSE IF path = TmpZipPath THEN [f EXCEPT !.zip = FALSE, !.zipdata = <<>>]
    ELSE f

\* shutil.rmtree(directory, ignore_errors=True) and TemporaryDirectory.cleanup()
rmtree(f, directory) ==
    IF directory = OfficeOutputDir THEN [f EXCEPT !.office = FALSE]
    ELSE IF directory = TempImagesDir THEN [f EXCEPT !.imgdir = FALSE, !.images = <<>>]
    ELSE f

RECURSIVE rmtree_all(_, _)
rmtree_all(f, dirs) ==
    IF dirs = <<>> THEN f ELSE rmtree_all(rmtree(f, Head(dirs)), Tail(dirs))

unlink_if(f, path) == IF Truthy(path) THEN unlink(f, path) ELSE f

\* mutant: cleanup() forgets the registered scratch directories
CleanupSkipsDirs(f, extra) ==
    /\ fs' = rmtree(unlink_if(unlink_if(f, tmp_path), extra), temp_images)
    /\ cleanup_calls' = cleanup_calls + 1

\* convert_pdf.cleanup(*extra_paths), run on the file system f
cleanup(f, extra) ==
    /\ fs' = rmtree(rmtree_all(unlink_if(unlink_if(f, tmp_path), extra), cleanup_dirs),
                    temp_images)
    /\ cleanup_calls' = cleanup_calls + 1

\* lines 321-328: the suffix check
CheckSuffix ==
    /\ endpoint = "convert"
    /\ pc = "start"
    /\ suffix' = _get_upload_suffix(filename, content_type)
    /\ IF suffix' \notin SUPPORTED_EXTENSIONS
       THEN /\ status' = 400
            /\ exc' = "HTTPException"
            /\ pc' = "done"
       ELSE /\ pc' = "write"
            /\ UNCHANGED <<status, exc>>
    /\ UNCHANGED <<req_vars, category, wants_zip, wants_json, tmp_path, temp_images,
                   cleanup_dirs, zip_path, image_paths, enc_vars, shot_vars, fs,
                   cleanup_calls, late_read, invoked>>

\* mutant: the size check is dropped
UploadNeverEmpty(n) == FALSE

\* os.path.getsize(tmp_path) == 0
upload_is_empty(n) == n = 0

\* lines 330-335: the upload is written to a temp file; an empty one is
\* unlinked and rejected
WriteUpload ==
    /\ pc = "write"
    /\ tmp_path' = TmpUploadPath
    /\ IF upload_is_empty(upload_size)
       THEN /\ fs' = unlink([fs EXCEPT !.upload = TRUE], tmp_path')
            /\ status' = 400
            /\ exc' = "HTTPException"
            /\ pc' = "done"
       ELSE /\ fs' = [fs EXCEPT !.upload = TRUE]
            /\ pc' = "setup"
            /\ UNCHANGED <<status, exc>>
    /\ UNCHANGED <<req_vars, suffix, category, wants_zip, wants_json, temp_images,
                   cleanup_dirs, zip_path, image_paths, enc_vars, shot_vars,
                   cleanup_calls, late_read, invoked>>

\* lines 337-363: the image directory, the negotiation and the category
Setup ==
    /\ pc = "setup"
    /\ temp_images' = TempImagesDir
    /\ wants_zip' = _wants_zip(response_format, accept_header)
    /\ wants_json' = IF wants_zip' THEN FALSE
                     ELSE _wants_json(response_format, accept_header)
    /\ cleanup_dirs' = <<>>
    /\ zip_path' = None
    /\ category' = _categorize_extension(suffix)
    /\ IF category' = "unknown"
       THEN /\ fs' = rmtree(unlink([fs EXCEPT !.imgdir = TRUE], tmp_path), temp_images')
            /\ cleanup_calls' = cleanup_calls + 1
            /\ status' = 400
            /\ exc' = "HTTPException"
            /\ pc' = "done"
       ELSE /\ fs' = [fs EXCEPT !.imgdir = TRUE]
            /\ pc' = "dispatch"
            /\ UNCHANGED <<status, exc, cleanup_calls>>
    /\ UNCHANGED <<req_vars, suffix, tmp_path, image_paths, enc_vars, shot_vars,
                   late_read, invoked>>

\* _extract_video_frame: ffmpeg is missing, exits non-zero, leaves no
\* output file, or writes frame-1.jpg
ExtractVideoFrame ==
    /\ pc = "dispatch"
    /\ category = "video"
    /\ invoked' = invoked \cup {"ffmpeg"}
    /\ \E outcome \in {"missing", "exit", "nooutput", "ok"} :
          IF outcome = "ok" /\ doc # <<>>
          THEN /\ fs' = [fs EXCEPT !.images = <<doc[1]>>]
               /\ image_paths' = <<1>>
               /\ pc' = "respond"
               /\ UNCHANGED exc
          ELSE /\ exc' = "HTTPException"
               /\ pc' = "except"
               /\ UNCHANGED <<fs, image_paths>>
    /\ UNCHANGED <<req_vars, suffix, category, wants_zip, wants_json, tmp_path,
                   temp_images, cleanup_dirs, zip_path, enc_vars, shot_vars, status,
                   cleanup_calls, late_read>>

\* cleanup_dirs.append(output_dir)
register_dir(dirs, output_dir) == Append(dirs, output_dir)

\* _convert_office_to_pdf and line 376: libreoffice, then soffice if the
\* first is missing; every failure removes the scratch directory first
ConvertOfficeToPdf ==
    /\ pc = "dispatch"
    /\ category = "office"
    /\ invoked' = invoked \cup {"libreoffice"}
    /\ \E first \in {"missing", "exit", "ok"}, second \in {"missing", "exit", "ok"},
          created \in BOOLEAN :
          LET result == IF first = "missing" THEN second ELSE first
          IN  IF result = "ok" /\ created
              THEN /\ fs' = [fs EXCEPT !.office = TRUE]
                   /\ cleanup_dirs' = register_dir(cleanup_dirs, OfficeOutputDir)
                   /\ pc' = "rasterize"
                   /\ UNCHANGED exc
              ELSE /\ fs' = rmtree([fs EXCEPT !.office = TRUE], OfficeOutputDir)
                   /\ exc' = "HTTPException"
                   /\ pc' = "except"
                   /\ UNCHANGED cleanup_dirs
    /\ UNCHANGED <<req_vars, suffix, category, wants_zip, wants_json, tmp_path,
                   temp_images, zip_path, image_paths, enc_vars, shot_vars, status,
                   cleanup_calls, late_read>>

\* _convert_pdf_to_jpeg_paths: one JPEG per page in document order, or an
\* exception turned into HTTPException(500)
ConvertPdfToJpegPaths ==
    /\ \/ pc = "dispatch" /\ category = "pdf"
       \/ pc = "rasterize"
    /\ invoked' = invoked \cup {"pdf2image"}
    /\ \E ok \in BOOLEAN :
          IF ok
          THEN /\ fs' = [fs EXCEPT !.images = doc]
               /\ image_paths' = [i \in 1..Len(doc) |-> i]
               /\ pc' = "respond"
               /\ UNCHANGED exc
          ELSE /\ exc' = "HTTPException"
               /\ pc' = "except"
               /\ UNCHANGED <<fs, image_paths>>
    /\ UNCHANGED <<req_vars, suffix, category, wants_zip, wants_json, tmp_path,
                   temp_images, cleanup_dirs, zip_path, enc_vars, shot_vars, status,
                   cleanup_calls, late_read>>

\* lines 368-370 and 378-380: except Exception: cleanup(None); raise
ConverterFailed ==
    /\ pc = "except"
    /\ cleanup(fs, None)
    /\ status' = 500
    /\ pc' = "done"
    /\ UNCHANGED <<req_vars, local_vars, enc_vars, shot_vars, exc, late_read, invoked>>

\* lines 382-384 and 400-413: the JSON branch is entered, or the
\* StreamingResponse is returned with content() created and not yet started
Respond ==
    /\ pc = "respond"
    /\ index' = 1
    /\ IF wants_json
       THEN /\ pc' = "json"
            /\ UNCHANGED <<gen, status>>
       ELSE /\ pc' = "stream"
            /\ gen' = "created"
            /\ status' = 200
    /\ UNCHANGED <<req_vars, local_vars, json_payload, offset, sent, json_response,
                   complete, shot_vars, exc, fs, cleanup_calls, late_read, invoked>>

\* lines 385-395: one page image is read and encoded, or the read fails
JsonEncodePage ==
    /\ pc = "json"
    /\ index <= Len(image_paths)
    /\ \E ok \in BOOLEAN :
          IF ok /\ fs.imgdir
          THEN /\ json_payload' =
                    Append(json_payload, json_entry(index, fs.images[image_paths[index]]))
               /\ index' = index + 1
               /\ late_read' = (late_read \/ cleanup_calls > 0)
               /\ UNCHANGED <<pc, exc>>
          ELSE /\ exc' = "OSError"
               /\ pc' = "json_finally"
               /\ UNCHANGED <<json_payload, index, late_read>>
    /\ UNCHANGED <<req_vars, local_vars, offset, gen, sent, json_response, complete,
                   shot_vars, fs, status, cleanup_calls, invoked>>

\* lines 396-398: return JSONResponse(...) or the pending exception, after
\* finally: cleanup(None)
JsonFinally ==
    /\ \/ pc = "json" /\ index > Len(image_paths)
       \/ pc = "json_finally"
    /\ cleanup(fs, None)
    /\ IF exc = "none"
       THEN /\ json_response' = json_payload
            /\ status' = 200
            /\ complete' = TRUE
       ELSE /\ status' = 500
            /\ UNCHANGED <<json_response, complete>>
    /\ pc' = "done"
    /\ UNCHANGED <<req_vars, local_vars, json_payload, index, offset, gen, sent,
                   shot_vars, exc, late_read, invoked>>

\* content(): finally: cleanup(zip_path), the generator ending with e
\* ("none": exhausted), run on the file system f
GeneratorFinally(f, e) ==
    /\ cleanup(f, zip_path')
    /\ gen' = "closed"
    /\ exc' = e
    /\ complete' = (e = "none")
    /\ pc' = "done"

\* _multipart_stream, from the start or from the CRLF of a part to the next
\* yield: the headers of part index (os.path.getsize may fail), or the
\* closing delimiter after the last part
MultipartNextPart ==
    /\ pc = "stream"
    /\ ~wants_zip
    /\ gen \in {"created", "at_crlf"}
    /\ IF index <= Len(image_paths)
       THEN \E ok \in BOOLEAN :
               IF ok /\ fs.imgdir
               THEN /\ sent' = Append(sent,
                                multipart_headers(boundary, page_filename(index),
                                    Len(fs.images[image_paths[index]])))
                    /\ gen' = "at_headers"
                    /\ offset' = 0
                    /\ late_read' = (late_read \/ cleanup_calls > 0)
                    /\ UNCHANGED <<pc, exc, fs, complete, cleanup_calls, zip_path>>
               ELSE /\ UNCHANGED <<zip_path, sent, offset, late_read>>
                    /\ GeneratorFinally(fs, "OSError")
       ELSE /\ sent' = Append(sent, closing_delimiter(boundary))
            /\ gen' = "at_close"
            /\ UNCHANGED <<pc, exc, fs, complete, cleanup_calls, zip_path, offset,
                           late_read>>
    /\ UNCHANGED <<req_vars, suffix, category, wants_zip, wants_json, tmp_path,
                   temp_images, cleanup_dirs, image_paths, json_payload, index,
                   json_response, shot_vars, status, invoked>>

\* _multipart_stream, lines 186-192: the next chunk of the open page image,
\* or the part's trailing CRLF once read() returns nothing
MultipartRead ==
    /\ pc = "stream"
    /\ gen \in {"at_headers", "at_chunk"}
    /\ LET chunk == read_chunk(fs.images[image_paths[index]], offset)
       IN  IF chunk # <<>>
           THEN /\ sent' = sent \o Bytes(chunk)
                /\ offset' = offset + Len(chunk)
                /\ gen' = "at_chunk"
                /\ UNCHANGED index
           ELSE /\ sent' = Append(sent, CrlfUnit)
                /\ gen' = "at_crlf"
                /\ index' = index + 1
                /\ UNCHANGED offset
    /\ late_read' = (late_read \/ cleanup_calls > 0)
    /\ UNCHANGED <<req_vars, local_vars, json_payload, json_response, complete,
                   shot_vars, pc, exc, fs, status, cleanup_calls, invoked>>

\* content(), after the closing delimiter was forwarded: the generator is
\* exhausted and its finally block runs
MultipartEnd ==
    /\ pc = "stream"
    /\ gen = "at_close"
    /\ UNCHANGED zip_path
    /\ GeneratorFinally(fs, "none")
    /\ UNCHANGED <<req_vars, suffix, category, wants_zip, wants_json, tmp_path,
                   temp_images, cleanup_dirs, image_paths, json_payload, index, offset,
                   sent, json_response, shot_vars, status, late_read, invoked>>

\* content() in zip mode, from the start to the first yield:
\* _create_zip_archive creates the temp file and writes the entries; when a
\* write fails the exception leaves _create_zip_archive before zip_path is
\* assigned.  Otherwise _stream_file yields the first chunk.
ZipCreateArchive ==
    /\ pc = "stream"
    /\ wants_zip
    /\ gen = "created"
    /\ late_read' = (late_read \/ cleanup_calls > 0)
    /\ \E ok \in BOOLEAN :
          IF ok /\ fs.imgdir
          THEN LET archive == zip_archive([i \in 1..Len(image_paths) |->
                                              fs.images[image_paths[i]]])
                   chunk == read_chunk(archive, 0)
               IN  /\ fs' = [fs EXCEPT !.zip = TRUE, !.zipdata = archive]
                   /\ zip_path' = TmpZipPath
                   /\ sent' = sent \o chunk
                   /\ offset' = Len(chunk)
                   /\ gen' = "at_zipchunk"
                   /\ UNCHANGED <<pc, exc, complete, cleanup_calls>>
          ELSE /\ UNCHANGED <<zip_path, sent, offset>>
               /\ GeneratorFinally([fs EXCEPT !.zip = TRUE], "OSError")
    /\ UNCHANGED <<req_vars, suffix, category, wants_zip, wants_json, tmp_path,
                   temp_images, cleanup_dirs, image_paths, json_payload, index,
                   json_response, shot_vars, status, invoked>>

\* _stream_file: the next chunk of the archive, or the end of the file, the
\* generator's exhaustion and its finally block
ZipStreamFile ==
    /\ pc = "stream"
    /\ gen = "at_zipchunk"
    /\ LET chunk == read_chunk(fs.zipdata, offset)
       IN  IF chunk # <<>>
           THEN /\ sent' = sent \o chunk
                /\ offset' = offset + Len(chunk)
                /\ late_read' = (late_read \/ cleanup_calls > 0)
                /\ UNCHANGED <<gen, pc, exc, fs, complete, cleanup_calls, zip_path>>
           ELSE /\ UNCHANGED <<zip_path, sent, offset, late_read>>
                /\ GeneratorFinally(fs, "none")
    /\ UNCHANGED <<req_vars, suffix, category, wants_zip, wants_json, tmp_path,
                   temp_images, cleanup_dirs, image_paths, json_payload, index,
                   json_response, shot_vars, status, invoked>>

\* The client disconnects while content() is suspended at a yield: the
\* generator is closed, GeneratorExit is raised at the yield and the
\* finally block runs.
ClientDisconnect ==
    /\ pc = "stream"
    /\ gen \in {"at_headers", "at_chunk", "at_crlf", "at_close", "at_zipchunk"}
    /\ UNCHANGED zip_path
    /\ GeneratorFinally(fs, "GeneratorExit")
    /\ UNCHANGED <<req_vars, suffix, category, wants_zip, wants_json, tmp_path,
                   temp_images, cleanup_dirs, image_paths, json_payload, index, offset,
                   sent, json_response, shot_vars, status, late_read, invoked>>

\* The client disconnects before the first chunk is pulled: content() was
\* never started, so closing or collecting it runs none of its body, the
\* finally block included.  The TemporaryDirectory object is released with
\* the generator; whether its finalizer has removed the directory by the
\* end of the request depends on when the object is collected.
ClientDisconnectBeforeStart ==
    /\ pc = "stream"
    /\ gen = "created"
    /\ gen' = "dropped"
    /\ exc' = "GeneratorExit"
    /\ pc' = "done"
    /\ \E finalized \in BOOLEAN :
          fs' = IF finalized THEN rmtree(fs, temp_images) ELSE fs
    /\ UNCHANGED <<req_vars, local_vars, json_payload, index, offset, sent,
                   json_response, complete, shot_vars, status, cleanup_calls, late_read,
                   invoked>>

\* ------------------------------------------------------------------------
\* POST /screenshot
\* ------------------------------------------------------------------------
\* lines 284-294: body_url, read from the JSON body only when the query
\* parameter is absent; "invalid" when the body is not JSON
body_url_of(u, body) ==
    IF u # None THEN PyNone
    ELSE IF body.k = "object" THEN body.url
    ELSE PyNone

\* url or body_url
url_or(u, b) == IF Truthy(u) THEN PyStr(u) ELSE b

HttpPrefixes == {<<"h", "t", "t", "p", ":", "/", "/">>, <<"h", "t", "t", "p", "s", ":", "/", "/">>}

\* _require_http_url: the status of the exception it raises (400 for the
\* two HTTPExceptions, 500 for the AttributeError of a value without
\* lower()), or 0 when it returns the value
_require_http_url(value) ==
    IF ~PyTruthy(value) THEN 400
    ELSE IF value.t # "str" THEN 500
    ELSE IF ~\E p \in HttpPrefixes : StartsWith(Lower(value.v), p) THEN 400
    ELSE 0

\* lines 284-295 of screenshot()
ScreenshotResolveUrl ==
    /\ endpoint = "screenshot"
    /\ pc = "start"
    /\ IF url = None /\ raw_body.k = "invalid"
       THEN /\ status' = 400
            /\ exc' = "HTTPException"
            /\ pc' = "done"
            /\ UNCHANGED target_url
       ELSE LET value == url_or(url, body_url_of(url, raw_body))
                raised == _require_http_url(value)
            IN  IF raised # 0
                THEN /\ status' = raised
                     /\ exc' = IF raised = 400 THEN "HTTPException" ELSE "AttributeError"
                     /\ pc' = "done"
                     /\ UNCHANGED target_url
                ELSE /\ target_url' = value.v
                     /\ pc' = "capture"
                     /\ UNCHANGED <<status, exc>>
    /\ UNCHANGED <<req_vars, local_vars, enc_vars, launched, fs, cleanup_calls,
                   late_read, invoked>>

\* _capture_url_screenshot and lines 298-312: the browser is launched and
\* sent to the URL; a Playwright error or timeout is a 400, any other
\* exception a 500
CaptureUrlScreenshot ==
    /\ pc = "capture"
    /\ launched' = launched \cup {target_url}
    /\ \E outcome \in {"ok", "playwright_error", "error"} :
          /\ status' = CASE outcome = "ok" -> 200
                         [] outcome = "playwright_error" -> 400
                         [] OTHER -> 500
          /\ exc' = IF outcome = "ok" THEN "none" ELSE "HTTPException"
          /\ complete' = (outcome = "ok")
    /\ pc' = "done"
    /\ UNCHANGED <<req_vars, local_vars, json_payload, index, offset, gen, sent,
                   json_response, target_url, fs, cleanup_calls, late_read, invoked>>

\* ------------------------------------------------------------------------
\* Specifications
\* ------------------------------------------------------------------------
Next ==
    \/ CheckSuffix
    \/ WriteUpload
    \/ Setup
    \/ ExtractVideoFrame
    \/ ConvertOfficeToPdf
    \/ ConvertPdfToJpegPaths
    \/ ConverterFailed
    \/ Respond
    \/ JsonEncodePage
    \/ JsonFinally
    \/ MultipartNextPart
    \/ MultipartRead
    \/ MultipartEnd
    \/ ZipCreateArchive
    \/ ZipStreamFile
    \/ ClientDisconnect
    \/ ClientDisconnectBeforeStart
    \/ ScreenshotResolveUrl
    \/ CaptureUrlScreenshot

\* every document of the bounds, one request per category and mode
Spec == Init /\ [][Next]_vars

\* every filename and content type of the model
SpecUpload == InitUpload /\ [][Next]_vars

\* every format override and Accept header of the model
SpecNegotiate == InitNegotiate /\ [][Next]_vars


\* ------------------------------------------------------------------------
\* Properties
\* ------------------------------------------------------------------------
ConvertEnded == endpoint = "convert" /\ pc = "done"

\* the negotiation of lines 339-341 has run
Negotiated == endpoint = "convert" /\ temp_images # None

\* the page images the conversion produced: every page of a document, the
\* first frame of a video
ConvertedPages == IF category = "video" THEN <<doc[1]>> ELSE doc

IsPrefix(s, t) == Len(s) <= Len(t) /\ SubSeq(t, 1, Len(s)) = s

ExpectedPageName(i) == <<"p", "a", "g", "e", "-">> \o IntToStr(i) \o <<".", "j", "p", "g">>

\* C1: after a /convert request has ended, whatever its outcome, none of
\* its temporary resources remains: the uploaded temp file, the page-image
\* directory, the office scratch directory and the ZIP temp file are gone.
C1_NoTempResourceRemains ==
    ConvertEnded => ~fs.upload /\ ~fs.imgdir /\ ~fs.office /\ ~fs.zip

\* an Accept item, parameters stripped, compared case-insensitively
AcceptLists(accept, types) ==
    /\ accept # None
    /\ \E i \in 1..Len(Split(accept, ",")) :
          Lower(Strip(Split(Split(accept, ",")[i], ";")[1])) \in types

ZipSignal ==
    \/ response_format # None /\ Lower(response_format) = <<"z", "i", "p">>
    \/ AcceptLists(accept_header, {<<"a", "p", "p", "l", "i", "c", "a", "t", "i", "o", "n", "/", "z", "i", "p">>, <<"a", "p", "p", "l", "i", "c", "a", "t", "i", "o", "n", "/", "x", "-", "z", "i", "p", "-", "c", "o", "m", "p", "r", "e", "s", "s", "e", "d">>})

ResponseMode ==
    IF wants_zip THEN "zip" ELSE IF wants_json THEN "json" ELSE "multipart"

\* C2: the response mode is zip if and only if the override equals "zip"
\* case-insensitively or some Accept item, parameters stripped and compared
\* case-insensitively, is application/zip or application/x-zip-compressed;
\* zip is chosen even when the override is "json" or Accept also lists
\* application/json; no override and no recognized Accept type give
\* multipart.
C2_ZipIffOverrideOrAccept ==
    Negotiated =>
        /\ (ResponseMode = "zip") <=> ZipSignal
        /\ gen = "at_zipchunk" => ZipSignal
        /\ gen \in {"at_headers", "at_chunk", "at_crlf", "at_close"} => ~ZipSignal
        /\ pc \in {"json", "json_finally"} => ~ZipSignal
        /\ ( /\ ~Truthy(response_format)
             /\ ~AcceptLists(accept_header,
                    {<<"a", "p", "p", "l", "i", "c", "a", "t", "i", "o", "n", "/", "z", "i", "p">>, <<"a", "p", "p", "l", "i", "c", "a", "t", "i", "o", "n", "/", "x", "-", "z", "i", "p", "-", "c", "o", "m", "p", "r", "e", "s", "s", "e", "d">>,
                     <<"a", "p", "p", "l", "i", "c", "a", "t", "i", "o", "n", "/", "j", "s", "o", "n">>}) ) => ResponseMode = "multipart"

C2_Witness ==
    /\ Negotiated
    /\ response_format = <<"j", "s", "o", "n">>
    /\ accept_header = <<"a", "p", "p", "l", "i", "c", "a", "t", "i", "o", "n", "/", "j", "s", "o", "n", ",", "a", "p", "p", "l", "i", "c", "a", "t", "i", "o", "n", "/", "z", "i", "p">>
    /\ gen = "at_zipchunk"

JsonSignal ==
    \/ response_format # None /\ Lower(response_format) = <<"j", "s", "o", "n">>
    \/ AcceptLists(accept_header, {<<"a", "p", "p", "l", "i", "c", "a", "t", "i", "o", "n", "/", "j", "s", "o", "n">>})

\* C3: when zip is not selected, the mode is json if the override equals
\* "json", and otherwise json whenever Accept contains application/json,
\* also when an override is present that is neither "zip" nor "json"; the
\* mode is multipart only when neither json signal is present.
C3_JsonByOverrideOrAccept ==
    (Negotiated /\ ResponseMode # "zip") =>
        ((ResponseMode = "json") <=> JsonSignal)

\* a converter failed and the request has ended
ConverterFailureEnded ==
    ConvertEnded /\ invoked # {} /\ exc = "HTTPException"

\* C4: whenever the office-to-PDF step, the rasterizer or the frame
\* extractor fails, also the rasterizer after a successful office
\* conversion, the request ends with a 500, no body byte of any mode is
\* produced, and the uploaded file, the image directory and the office
\* scratch directory are reclaimed before the error reaches the client.
C4_ConverterFailureIsTotal ==
    /\ ConverterFailureEnded =>
          /\ status = 500
          /\ sent = <<>> /\ json_response = <<>> /\ gen = "none" /\ ~complete
          /\ fs = EmptyFs
    /\ pc = "except" => status = 0 /\ sent = <<>> /\ json_response = <<>>

C4_Witness ==
    /\ ConverterFailureEnded
    /\ invoked = {"libreoffice", "pdf2image"}
    /\ cleanup_dirs = <<OfficeOutputDir>>

\* the multipart body of a sequence of page images, parts i..N and the
\* closing delimiter
RECURSIVE ExpectedMultipart(_, _)
ExpectedMultipart(pages, i) ==
    IF i > Len(pages)
    THEN <<[k |-> "close", v |-> 0, name |-> <<>>, size |-> 0, bnd |-> boundary]>>
    ELSE <<[k |-> "headers", v |-> 0, name |-> ExpectedPageName(i),
            size |-> Len(pages[i]), bnd |-> boundary]>>
         \o [j \in 1..Len(pages[i]) |->
                [k |-> "byte", v |-> pages[i][j], name |-> <<>>, size |-> 0, bnd |-> <<>>]]
         \o <<[k |-> "crlf", v |-> 0, name |-> <<>>, size |-> 0, bnd |-> <<>>]>>
         \o ExpectedMultipart(pages, i + 1)

MultipartStreaming ==
    endpoint = "convert" /\ gen \notin {"none", "created", "dropped"} /\ ~wants_zip

\* C5: for N page images the multipart stream is exactly N parts in page
\* order 1..N, part i being the boundary line and headers with filename
\* page-i.jpg and a Content-Length equal to the size of page image i, then
\* exactly those bytes and a CRLF; the closing delimiter comes exactly
\* once, after part N (for N = 0 it is the only output).
C5_MultipartFraming ==
    MultipartStreaming =>
        /\ IsPrefix(sent, ExpectedMultipart(ConvertedPages, 1))
        /\ complete => sent = ExpectedMultipart(ConvertedPages, 1)

C5_Witness ==
    /\ MultipartStreaming
    /\ complete
    /\ Len(doc) = 2
    /\ Len(doc[1]) > CHUNK_SIZE
    /\ Len(doc[2]) = 0

\* the extension of a filename: from the last dot of its last path
\* component, when some character other than a dot precedes that dot in the
\* component; empty otherwise
FilenameExtension(f) ==
    IF \E d \in 1..Len(f) :
          /\ f[d] = "."
          /\ \A j \in (d + 1)..Len(f) : f[j] \notin {".", "/"}
          /\ \E j \in 1..(d - 1) :
                /\ f[j] \notin {".", "/"}
                /\ \A m \in j..(d - 1) : f[m] # "/"
    THEN LET d == CHOOSE d \in 1..Len(f) :
                    f[d] = "." /\ \A j \in (d + 1)..Len(f) : f[j] # "."
         IN  [i \in 1..(Len(f) - d + 1) |-> f[d + i - 1]]
    ELSE <<>>

ExpectedSuffix ==
    IF filename # None /\ FilenameExtension(filename) # <<>>
    THEN Lower(FilenameExtension(filename))
    ELSE IF content_type # None
              /\ \E i \in 1..Len(content_type_mapping) :
                    content_type_mapping[i][1] = Lower(content_type)
    THEN LET i == CHOOSE i \in 1..Len(content_type_mapping) :
                    content_type_mapping[i][1] = Lower(content_type)
         IN  content_type_mapping[i][2]
    ELSE <<>>

ExpectedCategory(sfx) ==
    CASE sfx = <<".", "p", "d", "f">> -> "pdf"
      [] sfx \in {<<".", "d", "o", "c">>, <<".", "d", "o", "c", "x">>, <<".", "x", "l", "s">>, <<".", "x", "l", "s", "x">>, <<".", "p", "p", "t">>, <<".", "p", "p", "t", "x">>} -> "office"
      [] sfx \in {<<".", "m", "p", "4">>, <<".", "m", "o", "v">>, <<".", "a", "v", "i">>} -> "video"
      [] OTHER -> "unknown"

\* C6: the derived extension is the lowercased filename extension when the
\* filename has one, otherwise the content-type table's extension (empty
\* if unmapped); the category is pdf, office, video or unknown by the
\* fixed extension sets; every upload classified unknown is rejected with
\* a 400 without any converter being invoked.
C6_ClassifyAndRejectUnknown ==
    (endpoint = "convert" /\ pc # "start") =>
        /\ suffix = ExpectedSuffix
        /\ category # "none" => category = ExpectedCategory(ExpectedSuffix)
        /\ invoked # {} =>
              invoked \subseteq
                  CASE ExpectedCategory(ExpectedSuffix) = "pdf" -> {"pdf2image"}
                    [] ExpectedCategory(ExpectedSuffix) = "office" ->
                          {"libreoffice", "pdf2image"}
                    [] ExpectedCategory(ExpectedSuffix) = "video" -> {"ffmpeg"}
                    [] OTHER -> {}
        /\ ExpectedCategory(ExpectedSuffix) = "unknown" =>
              pc = "done" /\ status = 400 /\ invoked = {} /\ fs = EmptyFs

C6_Witness ==
    /\ ConvertEnded
    /\ filename = <<".", ".", "m", "p", "4">>
    /\ content_type = <<"a", "p", "p", "l", "i", "c", "a", "t", "i", "o", "n", "/", "p", "d", "f">>
    /\ suffix = <<".", "p", "d", "f">>
    /\ invoked = {"pdf2image"}

\* C7: a 0-byte upload always ends in a 400, whatever its filename
\* extension, content type, format override or Accept header, and no
\* converter is ever invoked for it.
C7_EmptyUploadRejected ==
    (endpoint = "convert" /\ upload_size = 0) =>
        /\ invoked = {}
        /\ pc \in {"start", "write", "done"}
        /\ pc = "done" => status = 400 /\ fs = EmptyFs

C7_Witness ==
    /\ ConvertEnded
    /\ upload_size = 0
    /\ suffix \in SUPPORTED_EXTENSIONS
    /\ tmp_path # None
    /\ status = 400

\* the target URL: the query parameter, else the JSON body's url member
ClaimedTarget ==
    IF url # None THEN PyStr(url)
    ELSE IF raw_body.k = "object" THEN raw_body.url
    ELSE PyNone

\* the target is a string starting with http:// or https://, in any case
TargetIsHttp ==
    /\ ClaimedTarget.t = "str"
    /\ \E p \in {<<"h", "t", "t", "p", ":", "/", "/">>, <<"h", "t", "t", "p", "s", ":", "/", "/">>} :
          /\ Len(ClaimedTarget.v) >= Len(p)
          /\ Lower([i \in 1..Len(p) |-> ClaimedTarget.v[i]]) = p

\* C8: in /screenshot a target URL that is missing or does not start with
\* http:// or https:// is rejected with a 400 before the headless browser
\* is launched; the renderer is invoked only for URLs that passed.
C8_InvalidUrlRejectedWith400 ==
    (endpoint = "screenshot" /\ ~TargetIsHttp) =>
        /\ launched = {}
        /\ pc # "capture"
        /\ pc = "done" => status = 400

\* the entries of a ZIP archive: name and content, in archive order
RECURSIVE Unzip(_)
Unzip(units) ==
    IF units = <<>> \/ Head(units).k # "zipentry" THEN <<>>
    ELSE LET n == Head(units).size
         IN  <<[name |-> Head(units).name,
                bytes |-> [j \in 1..n |-> units[j + 1].v]]>>
             \o Unzip(SubSeq(units, n + 2, Len(units)))

\* the parts of a multipart body: filename and the Content-Length bytes
\* that follow the headers
RECURSIVE MultipartParts(_)
MultipartParts(units) ==
    IF units = <<>> \/ Head(units).k # "headers" THEN <<>>
    ELSE LET n == Head(units).size
         IN  <<[name |-> Head(units).name,
                bytes |-> [j \in 1..n |-> units[j + 1].v]]>>
             \o MultipartParts(SubSeq(units, n + 3, Len(units)))

B64Index(c) == (CHOOSE i \in 1..64 : B64Alphabet[i] = c) - 1

\* base64 decoding of a padded string
RECURSIVE B64Decode(_)
B64Decode(s) ==
    IF Len(s) < 4 THEN <<>>
    ELSE LET b1 == B64Index(s[1]) * 4 + (B64Index(s[2]) \div 16)
         IN  IF s[3] = "=" THEN <<b1>>
             ELSE LET b2 == (B64Index(s[2]) % 16) * 16 + (B64Index(s[3]) \div 4)
                  IN  IF s[4] = "=" THEN <<b1, b2>>
                      ELSE <<b1, b2, (B64Index(s[3]) % 4) * 64 + B64Index(s[4])>>
                               \o B64Decode(SubSeq(s, 5, Len(s)))

\* the pages a JSON body presents
JsonPages(payload) ==
    [i \in 1..Len(payload) |->
        [name |-> payload[i].filename,
         bytes |-> B64Decode(SubSeq(payload[i].data, Len(DataUriPrefix) + 1,
                                    Len(payload[i].data)))]]

\* pages 1..N under the names page-1.jpg..page-N.jpg
PageListing(pages) ==
    [i \in 1..Len(pages) |-> [name |-> ExpectedPageName(i), bytes |-> pages[i]]]

\* C9: for the same ordered list of N page images the three modes present
\* the same pages under the same names in the same order: the ZIP archive
\* has exactly the entries page-1.jpg..page-N.jpg with the pages' bytes,
\* the multipart Content-Length values are those sizes, and the JSON body
\* is one array of N objects with page = i, filename = page-i.jpg and a
\* data URI whose base64 payload decodes to the bytes of page i.
C9_ModesPresentSamePages ==
    (ConvertEnded /\ complete) =>
        CASE ResponseMode = "zip" ->
                /\ Unzip(sent) = PageListing(ConvertedPages)
                /\ sent[Len(sent)].k = "zipend"
                /\ sent[Len(sent)].size = Len(ConvertedPages)
                /\ Len(SelectSeq(sent, LAMBDA u : u.k = "zipentry")) = Len(ConvertedPages)
          [] ResponseMode = "json" ->
                /\ JsonPages(json_response) = PageListing(ConvertedPages)
                /\ \A i \in 1..Len(json_response) :
                      /\ json_response[i].page = i
                      /\ IsPrefix(DataUriPrefix, json_response[i].data)
          [] OTHER ->
                MultipartParts(sent) = PageListing(ConvertedPages)

C9_Witness ==
    /\ ConvertEnded
    /\ complete
    /\ ResponseMode = "zip"
    /\ Len(doc) = 2
    /\ Len(doc[1]) = 1
    /\ Len(doc[2]) = MaxImgLen

\* C10: in every /convert request that reaches conversion the cleanup is
\* performed exactly once and is the last action of the request: no
\* encoder opens or reads a page image or the ZIP file after it has run.
C10_CleanupOnceAndLast ==
    /\ (endpoint = "convert" /\ invoked # {}) =>
          /\ cleanup_calls <= 1
          /\ ~late_read
          /\ pc = "done" => cleanup_calls = 1
====
